---- MODULE Spec2Model ----
(***************************************************************************)
(* Model of tiledb/ml/readers/types.py: the ArrayParams dataclass, its     *)
(* __post_init__ resolution and ArrayParams.to_tensor_schema, together     *)
(* with the loader's row-count validation exercised by                     *)
(* tests/readers/test_pytorch.py.                                          *)
(*                                                                         *)
(* Python values are kept as Python has them: list positions and           *)
(* key_dim_index are 0-based integers, so element i of a Python list is    *)
(* element i + 1 of the TLA+ sequence.  None is the string "None", and     *)
(* transform-table values are the strings "True", "False" or the name of   *)
(* a callable.                                                             *)
(***************************************************************************)
EXTENDS Integers, Sequences, FiniteSets, TLC

VARIABLES array, key_dim, fields, secondary_slices, tensor_kind,
          _tensor_schema_kwargs, pc, err,
          transforms, bound_kind, result,
          y_array, y_key_dim, loader

vars == <<array, key_dim, fields, secondary_slices, tensor_kind,
          _tensor_schema_kwargs, pc, err,
          transforms, bound_kind, result,
          y_array, y_key_dim, loader>>

(***************************************************************************)
(* Bounds of the explored input space.                                     *)
(***************************************************************************)
MaxDims == 3

NumAttrs == 2

MaxRows == 2

MaxFields == 2

MaxSlices == 2

MaxTransforms == 2

MaxWorkers == 2

(***************************************************************************)
(* Names and enumerations.                                                 *)
(***************************************************************************)
DimNames == <<"d0", "d1", "d2", "d3", "d4", "d5">>

AttrNames == <<"a0", "a1", "a2", "a3">>

UnknownName == "zz"

TensorKind == {"DENSE", "SPARSE_COO", "SPARSE_CSR", "RAGGED"}

Dtypes == {"int", "str"}

SliceValues == {"index", "slice"}

TransformValues == {"True", "False", "f"}

Range(s) == {s[i] : i \in 1..Len(s)}

SeqsUpTo(S, n) == UNION {[1..m -> S] : m \in 0..n}

(***************************************************************************)
(* tiledb.Array as the code reads it: dimension names and dtypes,          *)
(* attribute names, the schema's sparse flag and nonempty_domain().  Dense *)
(* arrays have integer dimensions only.  The first dimension holds `rows`  *)
(* rows; every dimension has a different non-empty domain.                 *)
(***************************************************************************)
MkArray(n, sparse, dtypes, rows) ==
    [dims   |-> SubSeq(DimNames, 1, n),
     dtypes |-> dtypes,
     attrs  |-> SubSeq(AttrNames, 1, NumAttrs),
     sparse |-> sparse,
     ned    |-> [i \in 1..n |-> IF i = 1 THEN <<0, rows - 1>>
                                         ELSE <<i - 1, 2 * (i - 1)>>]]

DimDtypes(n, sparse) ==
    IF sparse THEN [1..n -> Dtypes] ELSE {[i \in 1..n |-> "int"]}

ArraysOf(n, sparse) ==
    {MkArray(n, sparse, dt, r) : dt \in DimDtypes(n, sparse), r \in 1..MaxRows}

Arrays == UNION {ArraysOf(n, sp) : n \in 1..MaxDims, sp \in BOOLEAN}

(***************************************************************************)
(* key_dim: Union[int, str].  An int selector carries idx, a str selector  *)
(* carries name.                                                           *)
(***************************************************************************)
IntKey(i) == [isint |-> TRUE, idx |-> i, name |-> ""]

StrKey(s) == [isint |-> FALSE, idx |-> 0, name |-> s]

KeyDims(a) ==
    {IntKey(i) : i \in -1..Len(a.dims)}
        \cup {StrKey(s) : s \in Range(a.dims) \cup {UnknownName}}

FieldPool(a) == Range(a.attrs) \cup {a.dims[1], UnknownName}

FieldLists(a) == SeqsUpTo(FieldPool(a), MaxFields)

SliceDicts(a) ==
    UNION {[D -> SliceValues] :
             D \in {S \in SUBSET (Range(a.dims) \cup {UnknownName}) :
                       Cardinality(S) <= MaxSlices}}

TransformTables ==
    UNION {[K -> TransformValues] :
             K \in {S \in SUBSET TensorKind : Cardinality(S) <= MaxTransforms}}

(***************************************************************************)
(* Exceptions.  type "None" means no exception was raised.                 *)
(***************************************************************************)
NoError == [type |-> "None", msg |-> "", arg |-> ""]

UnknownFieldError(f) ==
    [type |-> "ValueError", msg |-> "Unknown attribute or dimension", arg |-> f]

NotInListError(x) ==
    [type |-> "ValueError", msg |-> "is not in list", arg |-> x]

IndexOutOfRange ==
    [type |-> "IndexError", msg |-> "list index out of range", arg |-> ""]

SecondarySliceError ==
    [type |-> "NotImplementedError",
     msg  |-> "Slicing on secondary indices is only implemented for dense arrays",
     arg  |-> ""]

MappingError(kind) ==
    [type |-> "NotImplementedError",
     msg  |-> "Mapping to tensors is not implemented",
     arg  |-> kind]

(***************************************************************************)
(* Python list helpers.                                                    *)
(***************************************************************************)
Contains(s, x) == \E i \in 1..Len(s) : s[i] = x

\* list.index(x): 0-based position of the first occurrence
Index(s, x) == (CHOOSE i \in 1..Len(s) : s[i] = x /\ \A j \in 1..(i - 1) : s[j] # x) - 1

Unset == [isNone |-> TRUE]

(***************************************************************************)
(* ArrayParams.__post_init__                                               *)
(***************************************************************************)
all_attrs(a) == a.attrs

all_dims(a) == a.dims

IsKnownField(a, f) == Contains(all_attrs(a), f) \/ Contains(all_dims(a), f)

\* variant: an unknown field is skipped instead of raising
field_error_silent(a, fs) == NoError

\* the loop over self.fields raises at the first field that is neither
field_error(a, fs) ==
    IF fs # <<>> /\ \E i \in 1..Len(fs) : ~IsKnownField(a, fs[i])
    THEN UnknownFieldError(
             fs[CHOOSE i \in 1..Len(fs) :
                    /\ ~IsKnownField(a, fs[i])
                    /\ \A j \in 1..(i - 1) : IsKnownField(a, fs[j])])
    ELSE NoError

\* variant: every requested field is queried as an attribute
query_attrs_all(a, fs) == IF fs # <<>> THEN fs ELSE all_attrs(a)

query_attrs(a, fs) ==
    LET IsAttr(f) == Contains(all_attrs(a), f)
    IN  IF fs # <<>> THEN SelectSeq(fs, IsAttr) ELSE all_attrs(a)

query_dims(a, fs) ==
    LET IsDim(f) == ~Contains(all_attrs(a), f) /\ Contains(all_dims(a), f)
    IN  IF fs # <<>> THEN SelectSeq(fs, IsDim) ELSE <<>>

final_fields(a, fs) == IF fs # <<>> THEN fs ELSE all_attrs(a)

\* all_dims.index(self.key_dim) raises ValueError for a name that is no dimension
key_dim_error(a, kd) ==
    IF ~kd.isint /\ ~Contains(all_dims(a), kd.name)
    THEN NotInListError(kd.name)
    ELSE NoError

key_dim_index(a, kd) ==
    IF kd.isint THEN kd.idx ELSE Index(all_dims(a), kd.name)

\* all_dims[key_dim_index] raises IndexError past the end of the list
swap_error(a, k) ==
    IF k > 0 /\ k >= Len(all_dims(a)) THEN IndexOutOfRange ELSE NoError

\* s[0], s[k] = s[k], s[0]
SwapWithFirst(s, k) ==
    [i \in 1..Len(s) |-> IF i = 1 THEN s[k + 1]
                         ELSE IF i = k + 1 THEN s[1]
                         ELSE s[i]]

\* variant: the key dimension is moved to the front, the others shift right
swapped_dims_moved(dims, k) ==
    IF k > 0
    THEN [i \in 1..Len(dims) |-> IF i = 1 THEN dims[k + 1]
                                 ELSE IF i <= k + 1 THEN dims[i - 1]
                                 ELSE dims[i]]
    ELSE dims

swapped_dims(dims, k) == IF k > 0 THEN SwapWithFirst(dims, k) ELSE dims

\* variant: the bounds are left in array order
swapped_ned_unswapped(ned, k) == ned

\* variant: the swap guard is key_dim_index > 1
swapped_ned_guard(ned, k) == IF k > 1 THEN SwapWithFirst(ned, k) ELSE ned

swapped_ned(ned, k) == IF k > 0 THEN SwapWithFirst(ned, k) ELSE ned

\* all_dims.index(dim) raises ValueError for a sliced name that is no dimension
slice_error(dims, slices) ==
    IF \E d \in DOMAIN slices : ~Contains(dims, d)
    THEN NotInListError(CHOOSE d \in DOMAIN slices : ~Contains(dims, d))
    ELSE NoError

\* variant: the guard is dim_index >= 0, so the key dimension's slice is kept
secondary_slices_indices_keep_key(dims, slices) ==
    [i \in {Index(dims, d) : d \in DOMAIN slices} |->
        slices[CHOOSE d \in DOMAIN slices : Index(dims, d) = i]]

secondary_slices_indices(dims, slices) ==
    LET kept == {d \in DOMAIN slices : Index(dims, d) > 0}
    IN  [i \in {Index(dims, d) : d \in kept} |->
            slices[CHOOSE d \in kept : Index(dims, d) = i]]

tensor_schema_kwargs(a, kd, fs, slices) ==
    LET k    == key_dim_index(a, kd)
        dims == swapped_dims(all_dims(a), k)
    IN  [_array            |-> a,
         _key_dim_index    |-> k,
         _fields           |-> final_fields(a, fs),
         _all_dims         |-> dims,
         _ned              |-> swapped_ned(a.ned, k),
         _secondary_slices |-> secondary_slices_indices(dims, slices),
         _query_kwargs     |-> [attrs |-> query_attrs(a, fs),
                                dims  |-> query_dims(a, fs)]]

\* the first exception __post_init__ raises, in statement order
post_init_error(a, kd, fs, slices) ==
    IF field_error(a, fs) # NoError THEN field_error(a, fs)
    ELSE IF key_dim_error(a, kd) # NoError THEN key_dim_error(a, kd)
    ELSE IF swap_error(a, key_dim_index(a, kd)) # NoError
         THEN swap_error(a, key_dim_index(a, kd))
    ELSE slice_error(swapped_dims(all_dims(a), key_dim_index(a, kd)), slices)

post_init(a, kd, fs, slices) ==
    LET e == post_init_error(a, kd, fs, slices)
    IN  IF e # NoError
        THEN [err |-> e, kwargs |-> Unset]
        ELSE [err |-> NoError, kwargs |-> tensor_schema_kwargs(a, kd, fs, slices)]

(***************************************************************************)
(* ArrayParams.to_tensor_schema                                            *)
(***************************************************************************)
\* transforms.get(kind, True)
Get(t, kind) == IF kind \in DOMAIN t THEN t[kind] ELSE "True"

Truthy(v) == v # "False"

\* np.issubdtype(self.array.dim(dim).dtype, np.integer)
IsIntegerDim(a, dim) == a.dtypes[Index(a.dims, dim) + 1] = "int"

\* variant: the dtype test runs over _all_dims[0:], key dimension included
infer_tensor_kind_all_dims(self, t) ==
    LET dims == self._tensor_schema_kwargs._all_dims
    IN  IF self.tensor_kind # "None" THEN self.tensor_kind
        ELSE IF ~self.array.sparse THEN "DENSE"
        ELSE IF ~(\A i \in 1..Len(dims) : IsIntegerDim(self.array, dims[i]))
             THEN "RAGGED"
        ELSE IF Len(self.array.dims) # 2 \/ ~Truthy(Get(t, "SPARSE_CSR"))
             THEN "SPARSE_COO"
        ELSE "SPARSE_CSR"

infer_tensor_kind(self, t) ==
    LET dims == self._tensor_schema_kwargs._all_dims
    IN  IF self.tensor_kind # "None" THEN self.tensor_kind
        ELSE IF ~self.array.sparse THEN "DENSE"
        ELSE IF ~(\A i \in 2..Len(dims) : IsIntegerDim(self.array, dims[i]))
             THEN "RAGGED"
        ELSE IF Len(self.array.dims) # 2 \/ ~Truthy(Get(t, "SPARSE_CSR"))
             THEN "SPARSE_COO"
        ELSE "SPARSE_CSR"

\* variant: the DENSE exemption is missing
slicing_rejected_any_kind(self, kind) ==
    Cardinality(DOMAIN self.secondary_slices) > 0

\* variant: the test reads the resolved table _secondary_slices
slicing_rejected_resolved(self, kind) ==
    kind # "DENSE" /\ Cardinality(DOMAIN self._tensor_schema_kwargs._secondary_slices) > 0

slicing_rejected(self, kind) ==
    kind # "DENSE" /\ Cardinality(DOMAIN self.secondary_slices) > 0

\* TensorSchemaFactories[tensor_kind](kind=tensor_kind, **kwargs)
factory(kind, kwargs) == [kind |-> kind, kwargs |-> kwargs]

MappedTensorSchema(schema, transform) == [wrapped |-> schema, fn |-> transform]

\* variant: a True entry is wrapped like a callable
apply_transform_always(schema, transform) == MappedTensorSchema(schema, transform)

apply_transform(schema, transform) ==
    IF transform # "True" THEN MappedTensorSchema(schema, transform) ELSE schema

to_tensor_schema(self, t) ==
    LET kind      == infer_tensor_kind(self, t)
        transform == Get(t, kind)
    IN  IF slicing_rejected(self, kind)
        THEN [err |-> SecondarySliceError, schema |-> Unset]
        ELSE IF ~Truthy(transform)
        THEN [err |-> MappingError(kind), schema |-> Unset]
        ELSE [err    |-> NoError,
              schema |-> apply_transform(factory(kind, self._tensor_schema_kwargs),
                                         transform)]

(***************************************************************************)
(* Loader facade: one tensor schema for X and one for Y, then the         *)
(* row-count validation, then the sparse/multi-worker validation.         *)
(***************************************************************************)
RowCountError ==
    [type |-> "ValueError",
     msg  |-> "X and Y arrays must have the same number of rows",
     arg  |-> ""]

SparseWorkersError ==
    [type |-> "NotImplementedError",
     msg  |-> "multiple workers not supported with sparse arrays",
     arg  |-> ""]

BaseSchema(schema) ==
    IF "wrapped" \in DOMAIN schema THEN schema.wrapped ELSE schema

\* extent of the non-empty domain along the key dimension
row_count(schema) ==
    LET b == BaseSchema(schema).kwargs._ned[1]
    IN  b[2] - b[1] + 1

\* csr=False disables SPARSE_CSR in the transform table
loader_transforms(csr) ==
    IF csr THEN [k \in {} |-> "True"] ELSE [k \in {"SPARSE_CSR"} |-> "False"]

ArrayParams(a, kd, fs, slices, kind) ==
    [array                 |-> a,
     key_dim               |-> kd,
     fields                |-> fs,
     secondary_slices      |-> slices,
     tensor_kind           |-> kind,
     _tensor_schema_kwargs |-> post_init(a, kd, fs, slices).kwargs]

loader_error(x, y, opts) ==
    LET xs == to_tensor_schema(x, loader_transforms(opts.csr))
        ys == to_tensor_schema(y, loader_transforms(opts.csr))
    IN  IF xs.err # NoError THEN xs.err
        ELSE IF ys.err # NoError THEN ys.err
        ELSE IF row_count(xs.schema) # row_count(ys.schema) THEN RowCountError
        ELSE IF opts.num_workers > 1 /\ (x.array.sparse \/ y.array.sparse)
             THEN SparseWorkersError
        ELSE NoError

LoaderOptions ==
    [num_workers         : 0..MaxWorkers,
     buffer_bytes        : {0, 1024},
     batch_size          : {1, 2},
     shuffle_buffer_size : {0, 4},
     csr                 : BOOLEAN]

(***************************************************************************)
(* Explored inputs.  Each group varies some arguments over their whole     *)
(* sets and leaves the others at the defaults of the dataclass and of      *)
(* to_tensor_schema (key_dim=0, fields=(), secondary_slices={},            *)
(* tensor_kind=None, transforms={}).                                       *)
(***************************************************************************)
EmptyDict == [k \in {} |-> "True"]

AllInteger(a) == \A i \in 1..Len(a.dims) : a.dtypes[i] = "int"

FullRows(a) == a.ned[1] = <<0, MaxRows - 1>>

ValidIntKeys(a) == {IntKey(i) : i \in 0..(Len(a.dims) - 1)}

IndexKeys(a) == {IntKey(i) : i \in -1..(Len(a.dims) - 1)}

SingleSliceDicts(a) ==
    {EmptyDict} \cup {[k \in {d} |-> "slice"] : d \in Range(a.dims)}

InitResolve ==
    /\ array \in {a \in Arrays : AllInteger(a) /\ FullRows(a)}
    /\ key_dim \in KeyDims(array)
    /\ fields \in FieldLists(array)
    /\ secondary_slices \in SliceDicts(array)
    /\ tensor_kind = "None"
    /\ transforms = EmptyDict
    /\ y_array = Unset
    /\ y_key_dim = IntKey(0)

InitKinds ==
    /\ array \in {a \in Arrays : FullRows(a)}
    /\ key_dim \in IndexKeys(array)
    /\ fields = <<>>
    /\ secondary_slices \in SingleSliceDicts(array)
    /\ tensor_kind \in TensorKind \cup {"None"}
    /\ transforms \in TransformTables
    /\ y_array = Unset
    /\ y_key_dim = IntKey(0)

InitLoader ==
    /\ array \in {a \in Arrays : AllInteger(a)}
    /\ key_dim \in ValidIntKeys(array)
    /\ fields = <<>>
    /\ secondary_slices = EmptyDict
    /\ tensor_kind = "None"
    /\ transforms = EmptyDict
    /\ y_array \in {a \in Arrays : AllInteger(a)}
    /\ y_key_dim \in ValidIntKeys(y_array)

Init ==
    /\ \/ InitResolve
       \/ InitKinds
       \/ InitLoader
    /\ _tensor_schema_kwargs = Unset
    /\ pc = "new"
    /\ err = NoError
    /\ bound_kind = "None"
    /\ result = Unset
    /\ loader = Unset

self == ArrayParams(array, key_dim, fields, secondary_slices, tensor_kind)

\* dataclass construction runs __post_init__ once
PostInit ==
    /\ pc = "new"
    /\ LET r == post_init(array, key_dim, fields, secondary_slices)
       IN  /\ err' = r.err
           /\ _tensor_schema_kwargs' = r.kwargs
           /\ pc' = IF r.err = NoError THEN "resolved" ELSE "failed"
    /\ UNCHANGED <<array, key_dim, fields, secondary_slices, tensor_kind,
                   transforms, bound_kind, result, y_array, y_key_dim, loader>>

\* self.to_tensor_schema(transforms) on the constructed object
ToTensorSchema ==
    /\ pc = "resolved"
    /\ bound_kind' = infer_tensor_kind(self, transforms)
    /\ result' = to_tensor_schema(self, transforms)
    /\ pc' = "schema"
    /\ UNCHANGED <<array, key_dim, fields, secondary_slices, tensor_kind,
                   _tensor_schema_kwargs, err, transforms,
                   y_array, y_key_dim, loader>>

\* loader construction over the X params of the state and the Y array
LoaderInit ==
    /\ pc = "resolved"
    /\ y_array # Unset
    /\ \E opts \in LoaderOptions :
          loader' = [opts |-> opts,
                     err  |-> loader_error(
                                  self,
                                  ArrayParams(y_array, y_key_dim, <<>>, EmptyDict, "None"),
                                  opts),
                     rows |-> row_count(factory("DENSE", _tensor_schema_kwargs)),
                     batches |-> 0]
    /\ pc' = "loader"
    /\ UNCHANGED <<array, key_dim, fields, secondary_slices, tensor_kind,
                   _tensor_schema_kwargs, err, transforms, bound_kind, result,
                   y_array, y_key_dim>>

\* iteration emits the batches of batch_size rows one after the other
NextBatch ==
    /\ pc = "loader"
    /\ loader.err = NoError
    /\ loader.batches * loader.opts.batch_size < loader.rows
    /\ loader' = [loader EXCEPT !.batches = @ + 1]
    /\ UNCHANGED <<array, key_dim, fields, secondary_slices, tensor_kind,
                   _tensor_schema_kwargs, pc, err, transforms, bound_kind, result,
                   y_array, y_key_dim>>

Next == PostInit \/ ToTensorSchema \/ LoaderInit \/ NextBatch

Spec == Init /\ [][Next]_vars

(***************************************************************************)
(* Properties.                                                             *)
(***************************************************************************)
Constructed == pc \in {"resolved", "schema", "loader"}

kw == _tensor_schema_kwargs

NDim == Len(array.dims)

\* key_dim designates a dimension: a dimension name or an index in 0..ndim-1
SelectsDim ==
    IF key_dim.isint THEN key_dim.idx \in 0..(NDim - 1)
    ELSE key_dim.name \in Range(array.dims)

SelectedDim ==
    IF key_dim.isint THEN array.dims[key_dim.idx + 1] ELSE key_dim.name

\* 1-based position of a dimension name in the array's own order
PosInArray(d) == CHOOSE i \in 1..NDim : array.dims[i] = d

Without(seq, x) == LET Keep(y) == y # x IN SelectSeq(seq, Keep)

\* C1 as stated: after a successful construction the selected key dimension
\* is at position 0 of _all_dims and the other dimensions follow in the
\* relative order of the array's dimension list.
C1_MovedToFront ==
    (Constructed /\ SelectsDim) =>
        /\ kw._all_dims[1] = SelectedDim
        /\ Tail(kw._all_dims) = Without(array.dims, SelectedDim)

\* C1 amended: after a successful construction with a selector that designates
\* a dimension, _all_dims is the array's dimension list with the selected
\* dimension and the first dimension exchanged: the key is at position 0, the
\* array's first dimension is at the key's old position, every other dimension
\* keeps its position.  A negative integer selector leaves the list unchanged.
C1_SwappedWithFirst ==
    /\ (Constructed /\ SelectsDim) =>
          /\ Len(kw._all_dims) = NDim
          /\ kw._all_dims[1] = SelectedDim
          /\ kw._all_dims[PosInArray(SelectedDim)] = array.dims[1]
          /\ \A i \in 2..NDim :
                i # PosInArray(SelectedDim) => kw._all_dims[i] = array.dims[i]
    /\ (Constructed /\ key_dim.isint /\ key_dim.idx < 0) =>
          kw._all_dims = array.dims

C1_Witness ==
    /\ Constructed
    /\ NDim = 3
    /\ key_dim = IntKey(2)
    /\ kw._all_dims = <<"d2", "d1", "d0">>

UnknownFields == {f \in Range(fields) : f \notin Range(array.attrs) \cup Range(array.dims)}

\* C3: once construction has run, a fields list with a name that is neither
\* an attribute nor a dimension has made it fail with the unknown-field
\* ValueError naming such a field and has produced no _tensor_schema_kwargs;
\* a fields list of known names never gives the unknown-field error.
C3_UnknownFieldRejected ==
    pc # "new" =>
        /\ UnknownFields # {} =>
              /\ pc = "failed"
              /\ err.type = "ValueError"
              /\ err.msg = "Unknown attribute or dimension"
              /\ err.arg \in UnknownFields
              /\ _tensor_schema_kwargs = Unset
        /\ UnknownFields = {} => err.msg # "Unknown attribute or dimension"

C3_Witness ==
    /\ pc = "failed"
    /\ fields = <<"a1", "zz">>
    /\ err = UnknownFieldError("zz")
    /\ _tensor_schema_kwargs = Unset

\* C7: after a successful construction _secondary_slices has no entry for
\* position 0, and its entries are exactly the supplied slices of the
\* dimensions other than the one at position 0 of _all_dims, each unchanged
\* and keyed by the dimension's position in _all_dims.
C7_KeySliceDropped ==
    Constructed =>
        LET nonkey == DOMAIN secondary_slices \ {kw._all_dims[1]}
        IN  /\ 0 \notin DOMAIN kw._secondary_slices
            /\ DOMAIN kw._secondary_slices = {Index(kw._all_dims, d) : d \in nonkey}
            /\ \A d \in nonkey :
                  kw._secondary_slices[Index(kw._all_dims, d)] = secondary_slices[d]

C7_Witness ==
    /\ Constructed
    /\ key_dim = IntKey(2)
    /\ DOMAIN secondary_slices = {"d2", "d0"}
    /\ secondary_slices["d0"] = "slice"
    /\ DOMAIN kw._secondary_slices = {2}
    /\ kw._secondary_slices[2] = "slice"

\* C8: after a successful construction, an empty fields argument resolves to
\* all attributes in array order for both _fields and the query's attrs, with
\* no query dims; a non-empty one resolves _fields to the requested list and
\* splits it, in order, into the query's attrs and dims.
C8_FieldsResolved ==
    Constructed =>
        LET IsAttr(f) == f \in Range(array.attrs)
            IsDim(f)  == f \in Range(array.dims)
        IN  IF fields = <<>>
            THEN /\ kw._fields = array.attrs
                 /\ kw._query_kwargs.attrs = array.attrs
                 /\ kw._query_kwargs.dims = <<>>
            ELSE /\ kw._fields = fields
                 /\ kw._query_kwargs.attrs = SelectSeq(fields, IsAttr)
                 /\ kw._query_kwargs.dims = SelectSeq(fields, IsDim)

C8_Witness ==
    /\ Constructed
    /\ fields = <<"d0", "a1">>
    /\ kw._query_kwargs = [attrs |-> <<"a1">>, dims |-> <<"d0">>]

\* C9: after a successful construction _ned[i] is the non-empty domain the
\* array reports for the dimension named _all_dims[i], for every position i.
C9_NedFollowsDims ==
    Constructed =>
        /\ Len(kw._ned) = NDim
        /\ \A i \in 1..NDim : kw._ned[i] = array.ned[PosInArray(kw._all_dims[i])]

C9_Witness ==
    /\ Constructed
    /\ key_dim = StrKey("d1")
    /\ kw._ned[1] = array.ned[2]
    /\ kw._ned[2] = array.ned[1]

NonKeyDims == Range(array.dims) \ {kw._all_dims[1]}

DtypeOf(d) == array.dtypes[PosInArray(d)]

\* the kind the inference rules of the specification give
InferredKind ==
    IF ~array.sparse THEN "DENSE"
    ELSE IF \E d \in NonKeyDims : DtypeOf(d) # "int" THEN "RAGGED"
    ELSE IF NDim # 2 THEN "SPARSE_COO"
    ELSE IF "SPARSE_CSR" \in DOMAIN transforms /\ transforms["SPARSE_CSR"] = "False"
         THEN "SPARSE_COO"
    ELSE "SPARSE_CSR"

\* C2: the kind to_tensor_schema binds is the pinned tensor_kind when there is
\* one; otherwise DENSE for a non-sparse array, RAGGED for a sparse array with
\* a non-integer non-key dimension, SPARSE_COO for any other sparse array that
\* is not 2-dimensional, and for a 2-dimensional one SPARSE_CSR unless the
\* table maps SPARSE_CSR to False, which gives SPARSE_COO.
C2_KindInference ==
    pc = "schema" =>
        bound_kind = IF tensor_kind # "None" THEN tensor_kind ELSE InferredKind

C2_Witness ==
    /\ pc = "schema"
    /\ tensor_kind = "None"
    /\ array.sparse
    /\ NDim = 2
    /\ key_dim = IntKey(1)
    /\ array.dtypes = <<"int", "str">>
    /\ bound_kind = "SPARSE_CSR"

SlicesRequested == DOMAIN secondary_slices # {}

\* C4: with a bound kind other than DENSE and secondary slices requested,
\* to_tensor_schema raises the secondary-slicing NotImplementedError and
\* builds no schema; with the DENSE kind it never raises that error.
C4_SlicingOnlyDense ==
    pc = "schema" =>
        /\ (bound_kind # "DENSE" /\ SlicesRequested) =>
              /\ result.err = SecondarySliceError
              /\ result.schema = Unset
        /\ bound_kind = "DENSE" => result.err # SecondarySliceError

C4_Witness ==
    /\ pc = "schema"
    /\ bound_kind = "RAGGED"
    /\ tensor_kind = "None"
    /\ DOMAIN secondary_slices = {"d1"}
    /\ kw._all_dims[1] = "d0"
    /\ result.err = SecondarySliceError
    /\ result.schema = Unset

\* the table without its entry for the bound kind
WithoutBoundKind == [k \in DOMAIN transforms \ {bound_kind} |-> transforms[k]]

PlainSchema == [kind |-> bound_kind, kwargs |-> kw]

\* C5: the table's entry for the bound kind decides the outcome of
\* to_tensor_schema: False raises NotImplementedError and returns no schema;
\* True gives the result of the table without that entry, whose schema is the
\* plain schema of the bound kind; a callable gives that plain schema wrapped
\* in a MappedTensorSchema carrying the callable (and the same exception when
\* the table without the entry raises one).
C5_TransformEntry ==
    (pc = "schema" /\ bound_kind \in DOMAIN transforms) =>
        LET entry   == transforms[bound_kind]
            noentry == to_tensor_schema(self, WithoutBoundKind)
        IN  /\ entry = "False" =>
                  /\ result.err.type = "NotImplementedError"
                  /\ result.schema = Unset
            /\ entry = "True" =>
                  /\ result = noentry
                  /\ result.err = NoError => result.schema = PlainSchema
            /\ entry \notin {"True", "False"} =>
                  IF noentry.err = NoError
                  THEN /\ noentry.schema = PlainSchema
                       /\ result = [err    |-> NoError,
                                    schema |-> [wrapped |-> PlainSchema, fn |-> entry]]
                  ELSE result = noentry

C5_Witness ==
    /\ pc = "schema"
    /\ tensor_kind = "None"
    /\ bound_kind = "SPARSE_COO"
    /\ DOMAIN transforms = {"SPARSE_CSR", "SPARSE_COO"}
    /\ transforms["SPARSE_CSR"] = "False"
    /\ transforms["SPARSE_COO"] = "f"
    /\ result.err = NoError
    /\ result.schema = [wrapped |-> PlainSchema, fn |-> "f"]

\* C10: for a bound kind other than DENSE, to_tensor_schema raises the
\* secondary-slicing error exactly when the supplied secondary_slices mapping
\* is non-empty, whatever the resolved table _secondary_slices holds: a
\* mapping whose only entry names the key dimension is rejected although the
\* resolved table is empty.
C10_SuppliedMappingDecides ==
    (pc = "schema" /\ bound_kind # "DENSE") =>
        /\ (result.err = SecondarySliceError) <=> SlicesRequested
        /\ (SlicesRequested /\ DOMAIN kw._secondary_slices = {}) =>
              result.err = SecondarySliceError

C10_Witness ==
    /\ pc = "schema"
    /\ bound_kind # "DENSE"
    /\ DOMAIN secondary_slices = {kw._all_dims[1]}
    /\ DOMAIN kw._secondary_slices = {}
    /\ result.err = SecondarySliceError

\* rows of an array along the dimension its integer key selects
RowsAlongKey(a, kd) == a.ned[kd.idx + 1][2] - a.ned[kd.idx + 1][1] + 1

RowsDiffer == RowsAlongKey(array, key_dim) # RowsAlongKey(y_array, y_key_dim)

\* C6: a loader constructed over X and Y arrays whose row counts along the key
\* dimension differ has failed with the ValueError "X and Y arrays must have
\* the same number of rows" and has emitted no batch, for every sparse/dense
\* X and Y, num_workers, buffer_bytes, batch_size and shuffle_buffer_size.
C6_RowCountMismatch ==
    (pc = "loader" /\ RowsDiffer) =>
        /\ loader.err.type = "ValueError"
        /\ loader.err.msg = "X and Y arrays must have the same number of rows"
        /\ loader.batches = 0

C6_Witness ==
    /\ pc = "loader"
    /\ RowsDiffer
    /\ array.sparse
    /\ ~y_array.sparse
    /\ key_dim = IntKey(1)
    /\ loader.opts.num_workers = 2
    /\ loader.err = RowCountError

====
